---- MODULE Spec2Model ----
(***************************************************************************)
(* A model of sar_coloc's catalog resolution functions (tools.py) and of   *)
(* the ERA5 metadata class (era5_meta.py).                                 *)
(*                                                                         *)
(* Strings are sequences of one-character strings, so that split, upper,   *)
(* startswith, endswith, int() and strptime are computed character by      *)
(* character.  Instants are seconds since 1970-01-01T00:00:00; calendar    *)
(* days are days since 1970-01-01 (numpy's datetime64[D]).                 *)
(***************************************************************************)
EXTENDS Integers, Sequences, FiniteSets, TLC

VARIABLES pc, db_name, start_date, stop_date, disk, schemes, files_list,
          files, stages, step, resource, date, dataset, prev, calls,
          product_path, self, result

vars == <<pc, db_name, start_date, stop_date, disk, schemes, files_list,
          files, stages, step, resource, date, dataset, prev, calls,
          product_path, self, result>>

(***************************************************************************)
(* Characters and strings                                                  *)
(***************************************************************************)
DigitChars == <<"0", "1", "2", "3", "4", "5", "6", "7", "8", "9">>

UpperChars == <<"A", "B", "C", "D", "E", "F", "G", "H", "I", "J", "K", "L", "M",
                "N", "O", "P", "Q", "R", "S", "T", "U", "V", "W", "X", "Y", "Z">>

LowerChars == <<"a", "b", "c", "d", "e", "f", "g", "h", "i", "j", "k", "l", "m",
                "n", "o", "p", "q", "r", "s", "t", "u", "v", "w", "x", "y", "z">>

\* the characters of the modelled file names, in code point order
CodePoints == <<"-", ".">> \o DigitChars \o UpperChars \o <<"_">> \o LowerChars

Range(s) == {s[i] : i \in DOMAIN s}

IndexIn(seq, c) == CHOOSE i \in DOMAIN seq : seq[i] = c

Ord(c) == IndexIn(CodePoints, c)

DigitSet == Range(DigitChars)

LowerSet == Range(LowerChars)

IsDigit(c) == c \in DigitSet

DigitVal(c) == IndexIn(DigitChars, c) - 1

\* str.upper()
UpperChar(c) == IF c \in LowerSet THEN UpperChars[IndexIn(LowerChars, c)] ELSE c

RECURSIVE Upper(_)
Upper(s) == IF Len(s) = 0 THEN <<>> ELSE <<UpperChar(Head(s))>> \o Upper(Tail(s))

\* str.startswith / str.endswith
StartsWith(s, p) == Len(s) >= Len(p) /\ SubSeq(s, 1, Len(p)) = p

EndsWith(s, p) == Len(s) >= Len(p) /\ SubSeq(s, Len(s) - Len(p) + 1, Len(s)) = p

\* p occurs in s at or after position i, and what follows it
OccursAt(s, p, i) == i + Len(p) - 1 <= Len(s) /\ SubSeq(s, i, i + Len(p) - 1) = p

\* str.split(sep) for a one-character separator
RECURSIVE SplitFrom(_, _, _, _)
SplitFrom(s, sep, i, cur) ==
    IF i > Len(s) THEN <<cur>>
    ELSE IF s[i] = sep THEN <<cur>> \o SplitFrom(s, sep, i + 1, <<>>)
    ELSE SplitFrom(s, sep, i + 1, Append(cur, s[i]))

Split(s, sep) == SplitFrom(s, sep, 1, <<>>)

\* sep.join(tokens)
RECURSIVE Join(_, _)
Join(tokens, sep) ==
    IF Len(tokens) = 0 THEN <<>>
    ELSE IF Len(tokens) = 1 THEN tokens[1]
    ELSE tokens[1] \o <<sep>> \o Join(Tail(tokens), sep)

\* str.replace(c, '') for a one-character c
RECURSIVE Remove(_, _)
Remove(s, c) ==
    IF Len(s) = 0 THEN <<>>
    ELSE IF Head(s) = c THEN Remove(Tail(s), c)
    ELSE <<Head(s)>> \o Remove(Tail(s), c)

\* python's order on str: lexicographic on code points
RECURSIVE StrLess(_, _)
StrLess(a, b) ==
    IF Len(b) = 0 THEN FALSE
    ELSE IF Len(a) = 0 THEN TRUE
    ELSE IF Head(a) = Head(b) THEN StrLess(Tail(a), Tail(b))
    ELSE Ord(Head(a)) < Ord(Head(b))

AllDigits(s) == \A i \in DOMAIN s : IsDigit(s[i])

\* the value of a string of decimal digits
RECURSIVE DigitsVal(_)
DigitsVal(s) ==
    IF Len(s) = 0 THEN 0
    ELSE 10 * DigitsVal(SubSeq(s, 1, Len(s) - 1)) + DigitVal(s[Len(s)])

\* n as a decimal string, left-padded with zeros to w characters
RECURSIVE Fmt(_, _)
Fmt(n, w) ==
    IF w <= 1 /\ n < 10 THEN <<DigitChars[n + 1]>>
    ELSE Fmt(n \div 10, w - 1) \o <<DigitChars[(n % 10) + 1]>>

(***************************************************************************)
(* The proleptic Gregorian calendar of datetime and numpy.datetime64       *)
(***************************************************************************)
IsLeap(y) == (y % 4 = 0 /\ y % 100 # 0) \/ y % 400 = 0

DaysInMonth(y, m) ==
    IF m = 2 THEN (IF IsLeap(y) THEN 29 ELSE 28)
    ELSE IF m \in {4, 6, 9, 11} THEN 30 ELSE 31

RECURSIVE DaysBeforeMonth(_, _)
DaysBeforeMonth(y, m) ==
    IF m = 1 THEN 0 ELSE DaysBeforeMonth(y, m - 1) + DaysInMonth(y, m - 1)

LeapsBefore(y) == (y - 1) \div 4 - (y - 1) \div 100 + (y - 1) \div 400

\* days from 1970-01-01 to the first of January of year y
DaysBeforeYear(y) == 365 * (y - 1970) + LeapsBefore(y) - LeapsBefore(1970)

\* days from 1970-01-01 to the day y-m-d
DaysFromCivil(y, m, d) == DaysBeforeYear(y) + DaysBeforeMonth(y, m) + d - 1

YearOfDay(day) ==
    CHOOSE y \in {1970 + day \div 366, 1971 + day \div 366} :
        DaysBeforeYear(y) <= day /\ day < DaysBeforeYear(y + 1)

\* strftime('%j') as a number
DayOfYear(day) == day - DaysBeforeYear(YearOfDay(day)) + 1

MonthOfDay(day) ==
    CHOOSE m \in 1..12 :
        /\ DaysBeforeMonth(YearOfDay(day), m) < DayOfYear(day)
        /\ DayOfYear(day) <= DaysBeforeMonth(YearOfDay(day), m) + DaysInMonth(YearOfDay(day), m)

DayOfMonth(day) == DayOfYear(day) - DaysBeforeMonth(YearOfDay(day), MonthOfDay(day))

\* date.astype('datetime64[D]'), seconds to days
FloorDay(t) == t \div 86400

\* str(date.astype('datetime64[D]')).replace('-', '')
SchemeOf(day) == Fmt(YearOfDay(day), 4) \o Fmt(MonthOfDay(day), 2) \o Fmt(DayOfMonth(day), 2)

\* the instant of a calendar date and clock time
Instant(y, m, d, hh, mm, ss) == DaysFromCivil(y, m, d) * 86400 + hh * 3600 + mm * 60 + ss

(***************************************************************************)
(* parse_date                                                              *)
(***************************************************************************)
\* what a call gives: the error raised, if any, or the value returned
Ok(start, stop) ==
    [err |-> "none", msg |-> "", start |-> start, stop |-> stop, name |-> <<>>]

Raise(err, msg) == [err |-> err, msg |-> msg, start |-> 0, stop |-> 0, name |-> <<>>]

Field(text, i, j) == DigitsVal(SubSeq(text, i, j))

\* datetime.strptime(date, '%Y%m%d%H%M%S') accepts the 14 characters
StrptimeOk(text) ==
    /\ AllDigits(text)
    /\ Field(text, 1, 4) >= 1
    /\ Field(text, 5, 6) \in 1..12
    /\ Field(text, 7, 8) \in 1..DaysInMonth(Field(text, 1, 4), Field(text, 5, 6))
    /\ Field(text, 9, 10) <= 23
    /\ Field(text, 11, 12) <= 59
    /\ Field(text, 13, 14) <= 59

\* the instant of an accepted string
InstantOf(text) ==
    DaysFromCivil(Field(text, 1, 4), Field(text, 5, 6), Field(text, 7, 8)) * 86400
        + Field(text, 9, 10) * 3600 + Field(text, 11, 12) * 60 + Field(text, 13, 14)

\* parse_date(date) for a str date; the instant is in field start
parse_date(text) ==
    IF Len(text) # 14 THEN Raise("ValueError", "Date isn't at the good format")
    ELSE IF ~StrptimeOk(text) THEN Raise("ValueError", "strptime")
    ELSE Ok(InstantOf(text), InstantOf(text))

(***************************************************************************)
(* date_schemes                                                            *)
(***************************************************************************)
\* one entry of the schemes dict: the key and tmp_dic
SchemeEntry(day_time) ==
    [scheme    |-> SchemeOf(FloorDay(day_time)),
     year      |-> Fmt(YearOfDay(FloorDay(day_time)), 4),
     dayOfYear |-> Fmt(DayOfYear(FloorDay(day_time)), 3),
     month     |-> Fmt(MonthOfDay(FloorDay(day_time)), 2)]

\* schemes[scheme] = tmp_dic on a dict kept in insertion order
DictSet(d, e) ==
    IF \E i \in DOMAIN d : d[i].scheme = e.scheme
    THEN [i \in DOMAIN d |-> IF d[i].scheme = e.scheme THEN e ELSE d[i]]
    ELSE Append(d, e)

\* a loop test on the instants instead of their days
SchemesGoOnInstant(day_time, stop) == day_time <= stop

\* a loop test that leaves the last day out
SchemesGoOnBefore(day_time, stop) == FloorDay(day_time) < FloorDay(stop)

\* the loop test of date_schemes
SchemesGoOn(day_time, stop) == FloorDay(day_time) <= FloorDay(stop)

RECURSIVE SchemesLoop(_, _, _)
SchemesLoop(day_time, stop, d) ==
    IF SchemesGoOn(day_time, stop)
    THEN SchemesLoop(day_time + 86400, stop, DictSet(d, SchemeEntry(day_time)))
    ELSE d

date_schemes(start, stop) == SchemesLoop(start, stop, <<>>)

(***************************************************************************)
(* extract_start_stop_dates_from_sar                                       *)
(***************************************************************************)
Basename(path) == IF path.nc # <<>> THEN path.nc ELSE path.name

\* python's seq[i] for i >= 0 and seq[-k]; FALSE when it raises IndexError
HasIndex(seq, i) == IF i >= 0 THEN i < Len(seq) ELSE -i <= Len(seq)

At(seq, i) == IF i >= 0 THEN seq[i + 1] ELSE seq[Len(seq) + 1 + i]

\* parse_date of the two strings, start then stop
ParseBoth(s1, s2) ==
    IF parse_date(s1).err # "none" THEN parse_date(s1)
    ELSE IF parse_date(s2).err # "none" THEN parse_date(s2)
    ELSE Ok(parse_date(s1).start, parse_date(s2).start)

\* the level 2 branch: fields 4 and 5 of the '-' separated upper case name
ExtractL2(upper_basename) ==
    LET split_basename == Split(upper_basename, "-")
    IN  IF ~HasIndex(split_basename, 4) \/ ~HasIndex(split_basename, 5)
        THEN Raise("IndexError", "list index out of range")
        ELSE ParseBoth(Remove(At(split_basename, 4), "T"), Remove(At(split_basename, 5), "T"))

\* a level 1 branch whose RS2 and RCM products stop when they start
ExtractL1NoOffset(upper_basename) ==
    LET split_basename == Split(upper_basename, "_")
    IN  IF StartsWith(upper_basename, <<"S", "1">>)
        THEN IF ~HasIndex(split_basename, -5) \/ ~HasIndex(split_basename, -4)
             THEN Raise("IndexError", "list index out of range")
             ELSE ParseBoth(Remove(At(split_basename, -5), "T"),
                            Remove(At(split_basename, -4), "T"))
        ELSE IF StartsWith(upper_basename, <<"R", "C", "M">>)
                \/ StartsWith(upper_basename, <<"R", "S", "2">>)
        THEN IF ~HasIndex(split_basename, 5) \/ ~HasIndex(split_basename, 6)
             THEN Raise("IndexError", "list index out of range")
             ELSE parse_date(At(split_basename, 5) \o At(split_basename, 6))
        ELSE Raise("ValueError", "Can't recognize if the product is a RCM, a S1 or a RS2")

\* the level 1 branch
ExtractL1(upper_basename) ==
    LET split_basename == Split(upper_basename, "_")
    IN  IF StartsWith(upper_basename, <<"S", "1">>)
        THEN IF ~HasIndex(split_basename, -5) \/ ~HasIndex(split_basename, -4)
             THEN Raise("IndexError", "list index out of range")
             ELSE ParseBoth(Remove(At(split_basename, -5), "T"),
                            Remove(At(split_basename, -4), "T"))
        ELSE IF StartsWith(upper_basename, <<"R", "C", "M">>)
                \/ StartsWith(upper_basename, <<"R", "S", "2">>)
        THEN IF ~HasIndex(split_basename, 5) \/ ~HasIndex(split_basename, 6)
             THEN Raise("IndexError", "list index out of range")
             ELSE LET start == parse_date(At(split_basename, 5) \o At(split_basename, 6))
                  IN  IF start.err # "none" THEN start
                      ELSE Ok(start.start, start.start + 5 * 60)
        ELSE Raise("ValueError", "Can't recognize if the product is a RCM, a S1 or a RS2")

\* a level test that ignores the case of the suffix
IsLevel2AnyCase(basename) == EndsWith(Upper(basename), <<".", "N", "C">>)

\* whether the level 2 branch is taken
IsLevel2(basename) == EndsWith(basename, <<".", "n", "c">>)

extract_start_stop_dates_from_sar(path) ==
    IF IsLevel2(Basename(path))
    THEN ExtractL2(Upper(Basename(path)))
    ELSE ExtractL1(Upper(Basename(path)))

(***************************************************************************)
(* The product names of the modelled archive                               *)
(***************************************************************************)
\* SM_REPR_A_20241231_300_001_7.nc
SmosReprGen1 ==
    <<"S", "M", "_", "R", "E", "P", "R", "_", "A", "_", "2", "0", "2", "4", "1", "2",
    "3", "1", "_", "3", "0", "0", "_", "0", "0", "1", "_", "7", ".", "n", "c">>

\* SM_REPR_A_20241231_300_002_7.nc
SmosReprGen2 ==
    <<"S", "M", "_", "R", "E", "P", "R", "_", "A", "_", "2", "0", "2", "4", "1", "2",
    "3", "1", "_", "3", "0", "0", "_", "0", "0", "2", "_", "7", ".", "n", "c">>

\* SM_REPR_A_20241231_300_002_8.nc
SmosReprGen2b ==
    <<"S", "M", "_", "R", "E", "P", "R", "_", "A", "_", "2", "0", "2", "4", "1", "2",
    "3", "1", "_", "3", "0", "0", "_", "0", "0", "2", "_", "8", ".", "n", "c">>

\* SM_OPER_A_20241231_300_001_7.nc
SmosOperGen1 ==
    <<"S", "M", "_", "O", "P", "E", "R", "_", "A", "_", "2", "0", "2", "4", "1", "2",
    "3", "1", "_", "3", "0", "0", "_", "0", "0", "1", "_", "7", ".", "n", "c">>

\* SM_OPER_A_20241231_300_002_7.nc
SmosOperGen2 ==
    <<"S", "M", "_", "O", "P", "E", "R", "_", "A", "_", "2", "0", "2", "4", "1", "2",
    "3", "1", "_", "3", "0", "0", "_", "0", "0", "2", "_", "7", ".", "n", "c">>

\* SM_REPR_D_20241231_300_001_7.nc
SmosDescGen1 ==
    <<"S", "M", "_", "R", "E", "P", "R", "_", "D", "_", "2", "0", "2", "4", "1", "2",
    "3", "1", "_", "3", "0", "0", "_", "0", "0", "1", "_", "7", ".", "n", "c">>

\* SM_REPR_A_20250101_300_001_7.nc
SmosNextDay ==
    <<"S", "M", "_", "R", "E", "P", "R", "_", "A", "_", "2", "0", "2", "5", "0", "1",
    "0", "1", "_", "3", "0", "0", "_", "0", "0", "1", "_", "7", ".", "n", "c">>

\* S1A_IW_20241231T235950_20250101T000015_057234_0A1B_12.SAFE
S1Midnight ==
    <<"S", "1", "A", "_", "I", "W", "_", "2", "0", "2", "4", "1", "2", "3", "1", "T",
    "2", "3", "5", "9", "5", "0", "_", "2", "0", "2", "5", "0", "1", "0", "1", "T", "0",
    "0", "0", "0", "1", "5", "_", "0", "5", "7", "2", "3", "4", "_", "0", "A", "1", "B",
    "_", "1", "2", ".", "S", "A", "F", "E">>

\* S1A_IW_20250101T120000_20250101T120025_057240_0A2C_34.SAFE
S1Noon ==
    <<"S", "1", "A", "_", "I", "W", "_", "2", "0", "2", "5", "0", "1", "0", "1", "T",
    "1", "2", "0", "0", "0", "0", "_", "2", "0", "2", "5", "0", "1", "0", "1", "T", "1",
    "2", "0", "0", "2", "5", "_", "0", "5", "7", "2", "4", "0", "_", "0", "A", "2", "C",
    "_", "3", "4", ".", "S", "A", "F", "E">>

\* S1A_IW_20241331T235950_20250101T000015_057234_0A1B_56.SAFE
S1BadStamp ==
    <<"S", "1", "A", "_", "I", "W", "_", "2", "0", "2", "4", "1", "3", "3", "1", "T",
    "2", "3", "5", "9", "5", "0", "_", "2", "0", "2", "5", "0", "1", "0", "1", "T", "0",
    "0", "0", "0", "1", "5", "_", "0", "5", "7", "2", "3", "4", "_", "0", "A", "1", "B",
    "_", "5", "6", ".", "S", "A", "F", "E">>

\* s1a-iw-owi-cm-20241231t235950-20250101t000015-057234-0A1B.nc
S1OwiMidnight ==
    <<"s", "1", "a", "-", "i", "w", "-", "o", "w", "i", "-", "c", "m", "-", "2", "0",
    "2", "4", "1", "2", "3", "1", "t", "2", "3", "5", "9", "5", "0", "-", "2", "0", "2",
    "5", "0", "1", "0", "1", "t", "0", "0", "0", "0", "1", "5", "-", "0", "5", "7", "2",
    "3", "4", "-", "0", "A", "1", "B", ".", "n", "c">>

\* RS2_OK1_PK2_DK3_SCWA_20241231_235950_VV_VH_SGF
Rs2Evening ==
    <<"R", "S", "2", "_", "O", "K", "1", "_", "P", "K", "2", "_", "D", "K", "3", "_",
    "S", "C", "W", "A", "_", "2", "0", "2", "4", "1", "2", "3", "1", "_", "2", "3", "5",
    "9", "5", "0", "_", "V", "V", "_", "V", "H", "_", "S", "G", "F">>

\* RS2_OK1_PK2_DK3_SCWA_20250101_120000_VV_VH_SGF
Rs2Noon ==
    <<"R", "S", "2", "_", "O", "K", "1", "_", "P", "K", "2", "_", "D", "K", "3", "_",
    "S", "C", "W", "A", "_", "2", "0", "2", "5", "0", "1", "0", "1", "_", "1", "2", "0",
    "0", "0", "0", "_", "V", "V", "_", "V", "H", "_", "S", "G", "F">>

\* rs2--owi-cm-20241231t235950-20241231t235959-00000-00000.nc
Rs2OwiEvening ==
    <<"r", "s", "2", "-", "-", "o", "w", "i", "-", "c", "m", "-", "2", "0", "2", "4",
    "1", "2", "3", "1", "t", "2", "3", "5", "9", "5", "0", "-", "2", "0", "2", "4", "1",
    "2", "3", "1", "t", "2", "3", "5", "9", "5", "9", "-", "0", "0", "0", "0", "0", "-",
    "0", "0", "0", "0", "0", ".", "n", "c">>

\* RCM1_OK1_PK2_1_SCLND_20241231_235950_VV_VH_GRD
RcmEvening ==
    <<"R", "C", "M", "1", "_", "O", "K", "1", "_", "P", "K", "2", "_", "1", "_", "S",
    "C", "L", "N", "D", "_", "2", "0", "2", "4", "1", "2", "3", "1", "_", "2", "3", "5",
    "9", "5", "0", "_", "V", "V", "_", "V", "H", "_", "G", "R", "D">>

\* hscat_20241231_235000_hy_2b_ovw_l2.nc
HyEvening ==
    <<"h", "s", "c", "a", "t", "_", "2", "0", "2", "4", "1", "2", "3", "1", "_", "2",
    "3", "5", "0", "0", "0", "_", "h", "y", "_", "2", "b", "_", "o", "v", "w", "_", "l",
    "2", ".", "n", "c">>

\* hscat_20250101_120000_hy_2b_ovw_l2.nc
HyNoon ==
    <<"h", "s", "c", "a", "t", "_", "2", "0", "2", "5", "0", "1", "0", "1", "_", "1",
    "2", "0", "0", "0", "0", "_", "h", "y", "_", "2", "b", "_", "o", "v", "w", "_", "l",
    "2", ".", "n", "c">>

(***************************************************************************)
(* get_last_generation_files                                               *)
(***************************************************************************)
\* int(token) does not raise
IntOk(token) == Len(token) > 0 /\ AllDigits(token)

\* extract_smos_sort_keys(string) does not raise
KeysOk(path) ==
    LET tokens == Split(Basename(path), "_")
    IN  HasIndex(tokens, -5) /\ IntOk(At(tokens, -4)) /\ IntOk(At(tokens, -2))

\* extract_smos_sort_keys(string): orbit, date, generation
extract_smos_sort_keys(path) ==
    LET tokens == Split(Basename(path), "_")
    IN  <<At(tokens, -5), DigitsVal(At(tokens, -4)), DigitsVal(At(tokens, -2))>>

\* python's order on the key tuples
KeyLess(a, b) ==
    \/ StrLess(a[1], b[1])
    \/ a[1] = b[1] /\ a[2] < b[2]
    \/ a[1] = b[1] /\ a[2] = b[2] /\ a[3] < b[3]

\* x put after every element whose key is not greater than its own
RECURSIVE InsertByKey(_, _)
InsertByKey(sorted, x) ==
    IF Len(sorted) = 0 THEN <<x>>
    ELSE IF KeyLess(extract_smos_sort_keys(x), extract_smos_sort_keys(Head(sorted)))
    THEN <<x>> \o sorted
    ELSE <<Head(sorted)>> \o InsertByKey(Tail(sorted), x)

\* sorted(files_list, key=extract_smos_sort_keys), a stable sort
RECURSIVE SortedByKey(_)
SortedByKey(list) ==
    IF Len(list) = 0 THEN <<>>
    ELSE InsertByKey(SortedByKey(SubSeq(list, 1, Len(list) - 1)),
                     list[Len(list)])

\* '_'.join(os.path.basename(file).split('_')[:-2])
Prefix(path) ==
    LET tokens == Split(Basename(path), "_")
    IN  Join(SubSeq(tokens, 1, Len(tokens) - 2), "_")

\* the test that makes file the reference of its group
GenerationReplaces(file, last_generation_file) ==
    extract_smos_sort_keys(file)[3] >= extract_smos_sort_keys(last_generation_file)[3]

\* the scan over sorted_files from position index (1-based)
RECURSIVE GenerationScan(_, _, _, _)
GenerationScan(sorted_files, index, last_generation_file, final_files) ==
    IF index > Len(sorted_files) THEN final_files
    ELSE LET file == sorted_files[index]
             same == Prefix(file) = Prefix(last_generation_file)
             last == IF same /\ ~GenerationReplaces(file, last_generation_file)
                     THEN last_generation_file ELSE file
             emitted == IF same THEN final_files
                        ELSE Append(final_files, last_generation_file)
             closed == IF index = Len(sorted_files) THEN Append(emitted, file)
                       ELSE emitted
         IN  GenerationScan(sorted_files, index + 1, last, closed)

\* get_last_generation_files(files_list): the error raised, if any, and the list
get_last_generation_files(list) ==
    IF Len(list) = 0 THEN [err |-> "none", files |-> list]
    ELSE IF \E i \in DOMAIN list : ~KeysOk(list[i])
    THEN LET i == CHOOSE k \in DOMAIN list :
                      ~KeysOk(list[k]) /\ \A j \in 1..(k - 1) : KeysOk(list[j])
         IN  [err |-> IF HasIndex(Split(Basename(list[i]), "_"), -5)
                      THEN "ValueError" ELSE "IndexError",
              files |-> <<>>]
    ELSE [err |-> "none",
          files |-> GenerationScan(SortedByKey(list), 1,
                                   SortedByKey(list)[1], <<>>)]

(***************************************************************************)
(* The temporal filter of get_all_comparison_files                         *)
(***************************************************************************)
\* ds.time of the HY2 file opened by open_nc(product_path)
HyTime(path) ==
    IF path.name = HyEvening
    THEN {Instant(2024, 12, 31, 23, 50, 0), Instant(2025, 1, 1, 0, 10, 0),
          Instant(2025, 1, 1, 0, 30, 0)}
    ELSE {Instant(2025, 1, 1, 12, 0, 0), Instant(2025, 1, 1, 13, 40, 0)}

\* extract_start_stop_dates_from_hy: min and max of np.unique(ds.time)
extract_start_stop_dates_from_hy(path) ==
    LET time == HyTime(path)
    IN  Ok(CHOOSE t \in time : \A u \in time : t <= u,
           CHOOSE t \in time : \A u \in time : t >= u)

\* the interval of a candidate, read from its name (SAR) or its grid (HY2)
IntervalOf(db, path) ==
    IF db = "HY2" THEN extract_start_stop_dates_from_hy(path)
    ELSE extract_start_stop_dates_from_sar(path)

\* a filter that tests the end of the candidate only
DroppedBefore(start, stop, start_d, stop_d) == stop < start_d

\* a filter that also removes the candidates that only touch the window
DroppedOpen(start, stop, start_d, stop_d) == (stop <= start_d) \/ (start >= stop_d)

\* the test that removes a candidate
Dropped(start, stop, start_d, stop_d) == (stop < start_d) \/ (start > stop_d)

\* list.remove(f): the first occurrence goes
RECURSIVE RemoveFirst(_, _)
RemoveFirst(list, f) ==
    IF Len(list) = 0 THEN <<>>
    ELSE IF Head(list) = f THEN Tail(list)
    ELSE <<Head(list)>> \o RemoveFirst(Tail(list), f)

\* for f in files.copy(): ... files.remove(f), from position i of the copy
RECURSIVE FilterLoop(_, _, _, _, _, _)
FilterLoop(db, copy, i, list, start_d, stop_d) ==
    IF i > Len(copy) THEN [err |-> "none", msg |-> "", files |-> list]
    ELSE LET iv == IntervalOf(db, copy[i])
         IN  IF iv.err # "none" THEN [err |-> iv.err, msg |-> iv.msg, files |-> list]
             ELSE IF Dropped(iv.start, iv.stop, start_d, stop_d)
             THEN FilterLoop(db, copy, i + 1, RemoveFirst(list, copy[i]), start_d, stop_d)
             ELSE FilterLoop(db, copy, i + 1, list, start_d, stop_d)

TemporalFilter(db, list, start_d, stop_d) == FilterLoop(db, list, 1, list, start_d, stop_d)

(***************************************************************************)
(* get_acquisition_root_paths and the glob calls                           *)
(***************************************************************************)
\* a path: a root template (with the directories its wildcards stand for),
\* the year and day-of-year directories, the product name and, for a level 2
\* product, the netcdf file inside the product directory
Path(root, dir1, dir2, name, nc) ==
    [root |-> root, dir1 |-> dir1, dir2 |-> dir2, name |-> name, nc |-> nc]

\* the roots of a sensor with their level, in the order the loops visit them
get_acquisition_root_paths(db) ==
    CASE db = "SMOS" ->
           <<[level |-> "-", root |-> "/home/ref-smoswind-public/data/v3.0/l3/data/reprocessing"],
             [level |-> "-", root |-> "/home/ref-smoswind-public/data/v3.0/l3/data/nrt"]>>
      [] db = "HY2" ->
           <<[level |-> "-", root |-> "/home/datawork-cersat-public/provider/knmi/satellite/l2b/hy-2b/hscat/25km/data"]>>
      [] db = "ERA5" ->
           <<[level |-> "-", root |-> "/home/ref-ecmwf/ERA5/%Y/%m/era_5-copernicus__%Y%m%d.nc"]>>
      [] db = "RS2" ->
           <<[level |-> "L1", root |-> "/home/datawork-cersat-public/cache/project/sarwing/data/RS2/L1"],
             [level |-> "L2", root |-> "/home/datawork-cersat-public/cache/public/ftp/project/sarwing/processings/c39e79a/default/RS2/*"]>>
      [] db = "S1" ->
           <<[level |-> "L1", root |-> "/home/datawork-cersat-public/cache/project/mpc-sentinel1/data/esa/sentinel-1*/L1"],
             [level |-> "L2", root |-> "/home/datawork-cersat-public/cache/project/sarwing/data/sentinel-1*"],
             [level |-> "L2", root |-> "/home/datawork-cersat-public/cache/public/ftp/project/sarwing/processings/c39e79a/default/sentinel-1*"]>>
      [] db = "RCM" ->
           <<[level |-> "L1", root |-> "/home/datawork-cersat-public/provider/asc-csa/satellite/l1/rcm/*/*/*"]>>

\* fnmatch of a name against pre*mid*suf
Fnmatch(name, pre, mid, suf) ==
    /\ StartsWith(name, pre)
    /\ EndsWith(name, suf)
    /\ \E i \in (Len(pre) + 1)..Len(name) :
           OccursAt(name, mid, i) /\ i + Len(mid) + Len(suf) - 1 <= Len(name)

\* a pattern without its year and day-of-year directories
DirMatchesRoot(path, root, entry) == path.root = root

\* the directories of the pattern: root, year, day of year
DirMatches(path, root, entry) ==
    path.root = root /\ path.dir1 = entry.year /\ path.dir2 = entry.dayOfYear

\* the last components of the pattern of a sensor and level
NameMatches(path, db, level, entry) ==
    CASE db \in {"SMOS", "HY2"} ->
           path.nc = <<>> /\ Fnmatch(path.name, <<>>, entry.scheme, <<"n", "c">>)
      [] db = "S1" /\ level = "L1" ->
           path.nc = <<>>
           /\ Fnmatch(path.name, <<"S", "1">>, entry.scheme, <<"S", "A", "F", "E">>)
      [] db = "S1" /\ level = "L2" ->
           /\ Fnmatch(path.name, <<"S", "1">>, entry.scheme, <<"S", "A", "F", "E">>)
           /\ Fnmatch(path.nc, <<>>, <<"o", "w", "i">>, <<".", "n", "c">>)
      [] db = "RS2" /\ level = "L1" ->
           path.nc = <<>> /\ Fnmatch(path.name, <<"R", "S", "2">>, entry.scheme, <<>>)
      [] db = "RS2" /\ level = "L2" ->
           /\ Fnmatch(path.name, <<"R", "S", "2">>, entry.scheme, <<>>)
           /\ Fnmatch(path.nc, <<>>, <<"o", "w", "i">>, <<".", "n", "c">>)
      [] db = "RCM" /\ level = "L1" ->
           path.nc = <<>> /\ Fnmatch(path.name, <<"R", "S", "2">>, entry.scheme, <<>>)
      [] OTHER -> FALSE

\* glob.glob of the pattern of (root, level, day): the matching paths of the
\* disk, in the order the directory lists them
Glob(listing, db, level, root, entry) ==
    SelectSeq(listing, LAMBDA p : DirMatches(p, root, entry) /\ NameMatches(p, db, level, entry))

\* for scheme in schemes: files += glob.glob(...), from the k-th day on
RECURSIVE GlobDays(_, _, _, _, _, _)
GlobDays(listing, db, level, root, entries, k) ==
    IF k > Len(entries) THEN <<>>
    ELSE Glob(listing, db, level, root, entries[k])
             \o GlobDays(listing, db, level, root, entries, k + 1)

\* for root_path in root_paths: ..., from the r-th root on
RECURSIVE GlobRoots(_, _, _, _, _)
GlobRoots(listing, db, roots, entries, r) ==
    IF r > Len(roots) THEN <<>>
    ELSE GlobDays(listing, db, roots[r].level, roots[r].root, entries, 1)
             \o GlobRoots(listing, db, roots, entries, r + 1)

(***************************************************************************)
(* get_nearest_era5_files                                                  *)
(***************************************************************************)
EraPrefix ==
    <<"e", "r", "a", "_", "5", "-", "c", "o", "p", "e", "r", "n", "i", "c", "u", "s", "_", "_">>

HourlyResource == "/archive/%Y/%j/model_%Y%m%d%H.nc"

\* date.strftime(resource) for the day and hour of the rounded date
Strftime(res, day, hour) ==
    IF res = HourlyResource
    THEN Path("/archive", Fmt(YearOfDay(day), 4), Fmt(DayOfYear(day), 3),
              <<"m", "o", "d", "e", "l", "_">> \o SchemeOf(day) \o Fmt(hour, 2)
                  \o <<".", "n", "c">>, <<>>)
    ELSE Path("/home/ref-ecmwf/ERA5", Fmt(YearOfDay(day), 4), Fmt(MonthOfDay(day), 2),
              EraPrefix \o SchemeOf(day) \o <<".", "n", "c">>, <<>>)

\* xsar's resource_strftime(resource, step=step, date=date): the file of the
\* date moved to the nearest multiple of step hours
resource_strftime(res, stp, cursor) ==
    LET shifted == cursor + stp * 1800
    IN  Strftime(res, FloorDay(shifted), (((shifted % 86400) \div 3600) \div stp) * stp)

\* a resolver that appends every resolved file name
AlwaysListed(filename, list) == TRUE

\* the test that appends a resolved file name
NotYetListed(filename, list) == \A i \in DOMAIN list : list[i] # filename

(***************************************************************************)
(* correct_dataset                                                         *)
(***************************************************************************)
SeqMax(s) == CHOOSE v \in Range(s) : \A u \in Range(s) : u <= v

SeqMin(s) == CHOOSE v \in Range(s) : \A u \in Range(s) : v <= u

\* the inner cross_antemeridian(ds)
cross_antemeridian(lon) == (SeqMax(lon) - SeqMin(lon)) > 180

RECURSIVE InsertAscending(_, _)
InsertAscending(sorted, v) ==
    IF Len(sorted) = 0 THEN <<v>>
    ELSE IF v < Head(sorted) THEN <<v>> \o sorted
    ELSE <<Head(sorted)>> \o InsertAscending(Tail(sorted), v)

\* dataset.sortby(lon_name), on the coordinate
RECURSIVE SortAscending(_)
SortAscending(s) ==
    IF Len(s) = 0 THEN <<>>
    ELSE InsertAscending(SortAscending(SubSeq(s, 1, Len(s) - 1)), s[Len(s)])

\* the longitude coordinate of correct_dataset(dataset, lon_name)
CorrectLon(lon, ndim) ==
    LET wrapped == IF cross_antemeridian(lon)
                   THEN [i \in DOMAIN lon |-> (lon[i] + 180) % 360]
                   ELSE lon
        shifted == [i \in DOMAIN wrapped |-> wrapped[i] - 180]
    IN  IF ndim = 1 THEN SortAscending(shifted) ELSE shifted

correct_dataset(ds) == [lon |-> CorrectLon(ds.lon, ds.ndim), ndim |-> ds.ndim]

(***************************************************************************)
(* GetEra5Meta                                                             *)
(***************************************************************************)
LongitudeChars == <<"l", "o", "n", "g", "i", "t", "u", "d", "e">>

LatitudeChars == <<"l", "a", "t", "i", "t", "u", "d", "e">>

\* '0' * n
RECURSIVE Zeros(_)
Zeros(n) == IF n <= 0 THEN <<>> ELSE <<"0">> \o Zeros(n - 1)

\* str(resolution).replace('.', '') + '0' * (3 - len(...))
StrResolution(str_of_resolution) ==
    Remove(str_of_resolution, ".") \o Zeros(3 - Len(Remove(str_of_resolution, ".")))

MetaOk(name) == [Ok(0, 0) EXCEPT !.name = name]

\* name in self.dataset.dims, answered or raised
DimensionName(ds, name) ==
    IF ~ds.loaded
    THEN Raise("AttributeError", "'NoneType' object has no attribute 'dims'")
    ELSE IF name \in ds.dims THEN MetaOk(name)
    ELSE Raise("ValueError", "wasn't found in the dataset")

longitude_name(obj, str_of_resolution) ==
    DimensionName(obj.dataset, LongitudeChars \o StrResolution(str_of_resolution))

latitude_name(obj, str_of_resolution) ==
    DimensionName(obj.dataset, LatitudeChars \o StrResolution(str_of_resolution))

\* self.dataset: None, or the opened file
Unloaded == [loaded |-> FALSE, dims |-> {}, lon025 |-> <<>>, lon050 |-> <<>>]

Loaded(content) ==
    [loaded |-> TRUE, dims |-> content.dims, lon025 |-> content.lon025,
     lon050 |-> content.lon050]

Object(listing, ds) == [built |-> TRUE, listing |-> listing, dataset |-> ds]

\* GetEra5Meta(product_path, listing): the error raised, if any, and the object
GetEra5Meta(listing, content) ==
    IF listing THEN [result |-> MetaOk(<<>>), obj |-> Object(TRUE, Unloaded)]
    ELSE LET opened  == Object(FALSE, Loaded(content))
             name025 == longitude_name(opened, <<"0", ".", "2", "5">>)
             first   == [opened EXCEPT !.dataset.lon025 = CorrectLon(@, 1)]
             name050 == longitude_name(first, <<"0", ".", "5">>)
             second  == [first EXCEPT !.dataset.lon050 = CorrectLon(@, 1)]
         IN  IF name025.err # "none" THEN [result |-> name025, obj |-> opened]
             ELSE IF name050.err # "none" THEN [result |-> name050, obj |-> first]
             ELSE [result |-> MetaOk(<<>>), obj |-> second]

(***************************************************************************)
(* Inputs: instants, the archive on disk, candidate lists                  *)
(***************************************************************************)
MaxFiles == 3

MaxDisk == 2

MaxSpan == 3

MaxLon == 2

MaxCalls == 2

\* the instants of the search windows: around the last day of a leap year
WindowTimes ==
    {Instant(2024, 12, 30, 12, 0, 0), Instant(2024, 12, 31, 23, 50, 0),
     Instant(2025, 1, 1, 0, 0, 15), Instant(2025, 1, 1, 0, 10, 0),
     Instant(2025, 1, 1, 12, 0, 0)}

\* the search windows of a sensor; for ERA5, whose loop steps by minutes, the short ones
Windows(db) ==
    {w \in WindowTimes \X WindowTimes : db = "ERA5" => w[2] - w[1] <= 3600}

SmosRepr == get_acquisition_root_paths("SMOS")[1].root
SmosNrt == get_acquisition_root_paths("SMOS")[2].root
HyRoot == get_acquisition_root_paths("HY2")[1].root
Rs2L1 == get_acquisition_root_paths("RS2")[1].root
Rs2L2 == get_acquisition_root_paths("RS2")[2].root
S1L1 == get_acquisition_root_paths("S1")[1].root
S1L2 == get_acquisition_root_paths("S1")[2].root
RcmL1 == get_acquisition_root_paths("RCM")[1].root

Y2024 == <<"2", "0", "2", "4">>
Y2025 == <<"2", "0", "2", "5">>
D366 == <<"3", "6", "6">>
D001 == <<"0", "0", "1">>

\* the products that may lie under the roots of a sensor
Archive(db) ==
    CASE db = "SMOS" ->
           {Path(SmosRepr, Y2024, D366, SmosReprGen1, <<>>),
            Path(SmosRepr, Y2024, D366, SmosReprGen2, <<>>),
            Path(SmosNrt, Y2024, D366, SmosOperGen1, <<>>),
            Path(SmosRepr, Y2025, D001, SmosNextDay, <<>>)}
      [] db = "HY2" ->
           {Path(HyRoot, Y2024, D366, HyEvening, <<>>),
            Path(HyRoot, Y2025, D001, HyNoon, <<>>)}
      [] db = "S1" ->
           {Path(S1L1, Y2024, D366, S1Midnight, <<>>),
            Path(S1L1, Y2025, D001, S1Noon, <<>>),
            Path(S1L1, Y2024, D366, S1BadStamp, <<>>),
            Path(S1L2, Y2024, D366, S1Midnight, S1OwiMidnight)}
      [] db = "RS2" ->
           {Path(Rs2L1, Y2024, D366, Rs2Evening, <<>>),
            Path(Rs2L1, Y2025, D001, Rs2Noon, <<>>),
            Path(Rs2L2, Y2024, D366, Rs2Evening, Rs2OwiEvening)}
      [] db = "RCM" ->
           {Path(RcmL1, Y2024, D366, RcmEvening, <<>>),
            Path(RcmL1, Y2024, D366, Rs2Evening, <<>>),
            Path(RcmL1, Y2025, D001, Rs2Noon, <<>>)}
      [] OTHER -> {}

\* the products whose name holds no valid timestamp
Malformed == {Path(S1L1, Y2024, D366, S1BadStamp, <<>>), Path(RcmL1, Y2024, D366, RcmEvening, <<>>)}

\* the lists of at most n elements of S
Lists(S, n) == UNION {[1..k -> S] : k \in 0..n}

\* a directory listing: the products on disk, each once, in listing order
Listings(S, n) == {l \in Lists(S, n) : \A i, j \in DOMAIN l : i # j => l[i] # l[j]}

\* the candidate lists handed to the generation scan
SmosCandidates ==
    {Path(SmosRepr, Y2024, D366, SmosReprGen1, <<>>),
     Path(SmosRepr, Y2024, D366, SmosReprGen2, <<>>),
     Path(SmosRepr, Y2024, D366, SmosReprGen2b, <<>>),
     Path(SmosNrt, Y2024, D366, SmosOperGen1, <<>>),
     Path(SmosNrt, Y2024, D366, SmosOperGen2, <<>>),
     Path(SmosRepr, Y2024, D366, SmosDescGen1, <<>>),
     Path(SmosRepr, Y2025, D001, SmosNextDay, <<>>)}

Sensors == {"SMOS", "HY2", "ERA5", "RS2", "S1", "RCM"}

NoPath == Path("", <<>>, <<>>, <<>>, <<>>)

NoDataset == [lon |-> <<>>, ndim |-> 1]

NoSelf == [built |-> FALSE, listing |-> TRUE, dataset |-> Unloaded]

EraResource == get_acquisition_root_paths("ERA5")[1].root

(***************************************************************************)
(* get_all_comparison_files, stage by stage                                *)
(***************************************************************************)
PipelineIdle ==
    /\ pc = "idle" /\ db_name = "SMOS" /\ start_date = 0 /\ stop_date = 0
    /\ disk = <<>> /\ schemes = <<>> /\ files_list = <<>> /\ files = <<>>
    /\ stages = <<>> /\ step = 1 /\ resource = EraResource /\ date = 0

GeometryIdle == dataset = NoDataset /\ prev = NoDataset /\ calls = 0

OtherIdle == product_path = NoPath /\ self = NoSelf /\ result = Ok(0, 0)

\* get_all_comparison_files(start_date, stop_date, db_name) is called
Init ==
    /\ pc = "start"
    /\ db_name \in Sensors
    /\ \E w \in Windows(db_name) : start_date = w[1] /\ stop_date = w[2]
    /\ disk \in Listings(Archive(db_name), MaxDisk)
    /\ schemes = <<>> /\ files_list = <<>> /\ files = <<>> /\ stages = <<>>
    /\ step = 1 /\ resource = EraResource /\ date = 0
    /\ GeometryIdle /\ OtherIdle

\* schemes = date_schemes(start_date, stop_date)
DateSchemes ==
    /\ pc = "start"
    /\ schemes' = date_schemes(start_date, stop_date)
    /\ pc' = "discover"
    /\ UNCHANGED <<db_name, start_date, stop_date, disk, files_list, files, stages,
                   step, resource, date, dataset, prev, calls, product_path, self, result>>

\* the glob loops of the SMOS, HY2, S1, RS2 and RCM branches
Discover ==
    /\ pc = "discover"
    /\ db_name # "ERA5"
    /\ files' = GlobRoots(disk, db_name, get_acquisition_root_paths(db_name), schemes, 1)
    /\ stages' = Append(stages, "discovery")
    /\ pc' = IF db_name = "SMOS" THEN "dedup" ELSE "filter"
    /\ UNCHANGED <<db_name, start_date, stop_date, disk, schemes, files_list,
                   step, resource, date, dataset, prev, calls, product_path, self, result>>

\* the ERA5 branch enters get_nearest_era5_files: files = [], date = start_date
Era5Begin ==
    /\ pc = "discover"
    /\ db_name = "ERA5"
    /\ files' = <<>>
    /\ date' = start_date
    /\ stages' = Append(stages, "periodic_resolver")
    /\ pc' = "era5_loop"
    /\ UNCHANGED <<db_name, start_date, stop_date, disk, schemes, files_list,
                   step, resource, dataset, prev, calls, product_path, self, result>>

\* one turn of while date < stop_date
Era5Step ==
    /\ pc = "era5_loop"
    /\ date < stop_date
    /\ LET filename == resource_strftime(resource, step, date)
       IN  files' = IF NotYetListed(filename, files) THEN Append(files, filename) ELSE files
    /\ date' = date + step * 60
    /\ UNCHANGED <<pc, db_name, start_date, stop_date, disk, schemes, files_list, stages,
                   step, resource, dataset, prev, calls, product_path, self, result>>

\* the loop ends: return files, which get_all_comparison_files returns in turn
Era5Return ==
    /\ pc = "era5_loop"
    /\ ~(date < stop_date)
    /\ pc' = "done"
    /\ UNCHANGED <<db_name, start_date, stop_date, disk, schemes, files_list, files, stages,
                   step, resource, date, dataset, prev, calls, product_path, self, result>>

\* files = get_last_generation_files(files), then return files
Deduplicate ==
    /\ pc = "dedup"
    /\ LET r == get_last_generation_files(files)
       IN  /\ files_list' = files
           /\ files' = IF r.err = "none" THEN r.files ELSE files
           /\ pc' = IF r.err = "none" THEN "done" ELSE "raised"
           /\ result' = IF r.err = "none" THEN result ELSE Raise(r.err, "")
    /\ stages' = Append(stages, "generation_dedup")
    /\ UNCHANGED <<db_name, start_date, stop_date, disk, schemes,
                   step, resource, date, dataset, prev, calls, product_path, self>>

\* the loop over files.copy() of the HY2 and of the S1, RS2, RCM branches, then return files
Filter ==
    /\ pc = "filter"
    /\ LET r == TemporalFilter(db_name, files, start_date, stop_date)
       IN  /\ files_list' = files
           /\ files' = r.files
           /\ pc' = IF r.err = "none" THEN "done" ELSE "raised"
           /\ result' = IF r.err = "none" THEN result ELSE Raise(r.err, r.msg)
    /\ stages' = Append(stages, "temporal_filter")
    /\ UNCHANGED <<db_name, start_date, stop_date, disk, schemes,
                   step, resource, date, dataset, prev, calls, product_path, self>>

Next ==
    DateSchemes \/ Discover \/ Era5Begin \/ Era5Step \/ Era5Return \/ Deduplicate \/ Filter

Spec == Init /\ [][Next]_vars

(***************************************************************************)
(* date_schemes on its own, over the ends of months and years              *)
(***************************************************************************)
SchemeDays ==
    {DaysFromCivil(2023, 2, 27), DaysFromCivil(2023, 2, 28), DaysFromCivil(2023, 12, 30),
     DaysFromCivil(2023, 12, 31), DaysFromCivil(2024, 2, 27), DaysFromCivil(2024, 2, 28),
     DaysFromCivil(2024, 2, 29), DaysFromCivil(2024, 4, 30), DaysFromCivil(2024, 12, 29),
     DaysFromCivil(2024, 12, 30), DaysFromCivil(2024, 12, 31), DaysFromCivil(2025, 1, 1)}

ClockTimes == {0, 12 * 3600, 86399}

InitSchemes ==
    /\ pc = "start"
    /\ db_name = "S1"
    /\ \E d \in SchemeDays, k \in 0..MaxSpan, t \in ClockTimes, u \in ClockTimes :
           /\ start_date = d * 86400 + t
           /\ stop_date = (d + k) * 86400 + u
           /\ start_date <= stop_date
    /\ disk = <<>> /\ schemes = <<>> /\ files_list = <<>> /\ files = <<>>
    /\ stages = <<>> /\ step = 1 /\ resource = EraResource /\ date = 0
    /\ GeometryIdle /\ OtherIdle

SpecSchemes == InitSchemes /\ [][DateSchemes]_vars

(***************************************************************************)
(* get_last_generation_files on its own                                    *)
(***************************************************************************)
InitDedup ==
    /\ pc = "dedup"
    /\ db_name = "SMOS"
    /\ start_date = 0 /\ stop_date = 0
    /\ files \in Listings(SmosCandidates, MaxFiles)
    /\ disk = <<>> /\ schemes = <<>> /\ files_list = <<>>
    /\ stages = <<>> /\ step = 1 /\ resource = EraResource /\ date = 0
    /\ GeometryIdle /\ OtherIdle

SpecDedup == InitDedup /\ [][Deduplicate]_vars

(***************************************************************************)
(* The temporal filter on its own, also over lists that repeat a path      *)
(***************************************************************************)
InitFilter ==
    /\ pc = "filter"
    /\ db_name \in {"HY2", "S1", "RS2", "RCM"}
    /\ start_date \in WindowTimes
    /\ stop_date \in WindowTimes
    /\ start_date <= stop_date
    /\ files \in Lists(Archive(db_name) \ Malformed, MaxFiles)
    /\ disk = <<>> /\ schemes = <<>> /\ files_list = <<>>
    /\ stages = <<>> /\ step = 1 /\ resource = EraResource /\ date = 0
    /\ GeometryIdle /\ OtherIdle

SpecFilter == InitFilter /\ [][Filter]_vars

(***************************************************************************)
(* get_nearest_era5_files on its own                                       *)
(***************************************************************************)
EraStarts ==
    {Instant(2024, 12, 31, 21, 0, 0), Instant(2024, 12, 31, 22, 45, 0),
     Instant(2024, 12, 31, 23, 20, 30), Instant(2025, 1, 1, 0, 0, 0)}

EraMinutes == {-60, 0, 1, 59, 60, 180}

InitEra5 ==
    /\ pc = "discover"
    /\ db_name = "ERA5"
    /\ start_date \in EraStarts
    /\ \E m \in EraMinutes : stop_date = start_date + m * 60
    /\ step \in {1, 30, 60, 90}
    /\ resource \in {EraResource, HourlyResource}
    /\ disk = <<>> /\ schemes = <<>> /\ files_list = <<>> /\ files = <<>>
    /\ stages = <<>> /\ date = 0
    /\ GeometryIdle /\ OtherIdle

SpecEra5 == InitEra5 /\ [][Era5Begin \/ Era5Step \/ Era5Return]_vars

(***************************************************************************)
(* correct_dataset, called again on its own result                         *)
(***************************************************************************)
LonValues == {-180, -170, -10, 0, 10, 170, 179, 180, 190, 350, 359}

LonArrays == Lists(LonValues, MaxLon) \ {<<>>}

InitGeometry ==
    /\ PipelineIdle /\ OtherIdle
    /\ dataset \in [lon : LonArrays, ndim : {1, 2}]
    /\ prev = dataset
    /\ calls = 0

\* dataset = correct_dataset(dataset, lon_name)
CorrectDataset ==
    /\ calls < MaxCalls
    /\ prev' = dataset
    /\ dataset' = correct_dataset(dataset)
    /\ calls' = calls + 1
    /\ UNCHANGED <<pc, db_name, start_date, stop_date, disk, schemes, files_list, files,
                   stages, step, resource, date, product_path, self, result>>

SpecGeometry == InitGeometry /\ [][CorrectDataset]_vars

(***************************************************************************)
(* extract_start_stop_dates_from_sar on its own                            *)
(***************************************************************************)
SarPrefixes ==
    {<<"S", "1", "A">>, <<"s", "1", "b">>, <<"R", "S", "2">>, <<"r", "s", "2">>,
     <<"R", "C", "M", "1">>, <<"r", "c", "m", "3">>, <<"T", "S", "X">>, <<"S", "M">>,
     <<"X", "S", "1">>}

SarStamps ==
    {[date |-> <<"2", "0", "2", "4", "1", "2", "3", "1">>, time |-> <<"2", "3", "5", "9", "5", "0">>],
     [date |-> <<"2", "0", "2", "4", "1", "3", "3", "1">>, time |-> <<"2", "3", "5", "9", "5", "0">>]}

SarSuffixes == {<<>>, <<".", "n", "c">>, <<".", "N", "C">>, <<".", "S", "A", "F", "E">>}

\* the tokens of a name in one of the archive layouts
SarTokens(pre, layout, stamp) ==
    LET start == stamp.date \o <<"T">> \o stamp.time
        stop  == <<"2", "0", "2", "5", "0", "1", "0", "1", "T", "0", "0", "0", "0", "1", "5">>
    IN  CASE layout = "s1" ->
               <<pre, <<"I", "W">>, start, stop, <<"0", "5", "7">>, <<"0", "A", "1", "B">>, <<"1", "2">>>>
          [] layout = "radarsat" ->
               <<pre, <<"O", "K", "1">>, <<"P", "K", "2">>, <<"D", "K", "3">>, <<"S", "C", "W", "A">>,
                 stamp.date, stamp.time, <<"V", "V">>>>
          [] layout = "owi" ->
               <<pre, <<"i", "w">>, <<"o", "w", "i">>, <<"c", "m">>, start, stop, <<"0", "5", "7">>>>
          [] OTHER -> <<pre, <<"x">>>>

SarInputs ==
    {Path("", <<>>, <<>>, Join(SarTokens(pre, layout, stamp), sep) \o suf, <<>>) :
        pre \in SarPrefixes, layout \in {"s1", "radarsat", "owi", "short"},
        stamp \in SarStamps, sep \in {"_", "-"}, suf \in SarSuffixes}

InitSar ==
    /\ PipelineIdle /\ GeometryIdle
    /\ product_path \in SarInputs
    /\ self = NoSelf
    /\ result = Ok(0, 0)

\* start, stop = extract_start_stop_dates_from_sar(product_path)
ExtractDates ==
    /\ pc = "idle"
    /\ product_path # NoPath
    /\ result' = extract_start_stop_dates_from_sar(product_path)
    /\ pc' = "done"
    /\ UNCHANGED <<db_name, start_date, stop_date, disk, schemes, files_list, files,
                   stages, step, resource, date, dataset, prev, calls, product_path, self>>

SpecSar == InitSar /\ [][ExtractDates]_vars

(***************************************************************************)
(* GetEra5Meta: construction, then longitude_name and latitude_name        *)
(***************************************************************************)
DimNames ==
    {LongitudeChars \o <<"0", "2", "5">>, LongitudeChars \o <<"0", "5", "0">>,
     LatitudeChars \o <<"0", "2", "5">>, LatitudeChars \o <<"0", "5", "0">>,
     LongitudeChars \o <<"1", "0", "0">>, <<"t", "i", "m", "e">>}

\* what open_nc(product_path).load() may hold
Era5Contents ==
    [dims : SUBSET DimNames, lon025 : {<<0, 90, 180, 270>>}, lon050 : {<<0, 180>>, <<10, 20>>}]

\* str(resolution) of the resolutions asked for
Resolutions ==
    {<<"0", ".", "2", "5">>, <<"0", ".", "5">>, <<"1">>, <<"1", ".", "0">>,
     <<"0", ".", "1", "2", "5">>, <<"2", ".", "5">>}

InitMeta ==
    /\ PipelineIdle /\ GeometryIdle
    /\ product_path = NoPath
    /\ self = NoSelf
    /\ result = Ok(0, 0)

\* self = GetEra5Meta(product_path, listing=listing)
Construct ==
    /\ ~self.built
    /\ result = Ok(0, 0)
    /\ \E listing \in BOOLEAN, content \in Era5Contents :
           LET made == GetEra5Meta(listing, content)
           IN  /\ result' = made.result
               /\ self' = IF made.result.err = "none" THEN made.obj ELSE self
    /\ UNCHANGED <<pc, db_name, start_date, stop_date, disk, schemes, files_list, files,
                   stages, step, resource, date, dataset, prev, calls, product_path>>

\* self.longitude_name(resolution)
LongitudeName ==
    /\ self.built
    /\ \E r \in Resolutions : result' = longitude_name(self, r)
    /\ pc' = "longitude_name"
    /\ UNCHANGED <<db_name, start_date, stop_date, disk, schemes, files_list, files,
                   stages, step, resource, date, dataset, prev, calls, product_path, self>>

\* self.latitude_name(resolution)
LatitudeName ==
    /\ self.built
    /\ \E r \in Resolutions : result' = latitude_name(self, r)
    /\ pc' = "latitude_name"
    /\ UNCHANGED <<db_name, start_date, stop_date, disk, schemes, files_list, files,
                   stages, step, resource, date, dataset, prev, calls, product_path, self>>

SpecMeta == InitMeta /\ [][Construct \/ LongitudeName \/ LatitudeName]_vars

(***************************************************************************)
(* Properties                                                              *)
(***************************************************************************)
\* the identity group of a path: the tokens of its basename but the last two
GroupOf(path) ==
    SubSeq(Split(Basename(path), "_"), 1, Len(Split(Basename(path), "_")) - 2)

\* the generation counter of a path: the second-to-last token, as a number
GenerationOf(path) == DigitsVal(At(Split(Basename(path), "_"), -2))

NoDuplicates(list) == \A i, j \in DOMAIN list : i # j => list[i] # list[j]

\* C1: whenever get_last_generation_files returns, its result holds exactly
\* one path of every identity group of the input, that path carries the
\* greatest generation counter of its group, and the empty list gives the
\* empty list.
C1_OneSurvivorPerGroup ==
    (pc = "done" /\ db_name = "SMOS") =>
        /\ \A i \in DOMAIN files : \E j \in DOMAIN files_list : files[i] = files_list[j]
        /\ \A j \in DOMAIN files_list :
               Cardinality({i \in DOMAIN files : GroupOf(files[i]) = GroupOf(files_list[j])}) = 1
        /\ \A i \in DOMAIN files, j \in DOMAIN files_list :
               GroupOf(files[i]) = GroupOf(files_list[j])
                   => GenerationOf(files[i]) >= GenerationOf(files_list[j])
        /\ (files_list = <<>> => files = <<>>)

\* whether the interval of a candidate meets [start_date, stop_date], ends included
Intersects(path) ==
    /\ IntervalOf(db_name, path).stop >= start_date
    /\ IntervalOf(db_name, path).start <= stop_date

Filtered == db_name \in {"HY2", "S1", "RS2", "RCM"}

\* C2: when the temporal filter has run over a list of S1, RS2, RCM or HY2
\* candidates, what is left is exactly the candidates whose interval meets
\* [start_date, stop_date] (ends included), in their input order, also when
\* the list holds a path more than once.
C2_FilterKeepsIntersecting ==
    (pc = "done" /\ Filtered) => files = SelectSeq(files_list, Intersects)

\* a list that holds a kept path twice around a dropped one, the kept path
\* ending exactly at start_date
C2_Witness ==
    /\ pc = "done" /\ Filtered
    /\ Len(files_list) = 3
    /\ files_list[1] = files_list[3]
    /\ files_list[1] # files_list[2]
    /\ IntervalOf(db_name, files_list[1]).stop = start_date
    /\ files = <<files_list[1], files_list[3]>>

LastStage == stages[Len(stages)]

\* C3 as stated: for every sensor the last stage of get_all_comparison_files
\* is the temporal filter, which for SMOS follows the generation dedup.
C3_FilterRunsLast ==
    pc = "done" =>
        /\ LastStage = "temporal_filter"
        /\ db_name = "SMOS" => stages = <<"discovery", "generation_dedup", "temporal_filter">>

\* C3 as amended: for HY2, S1, RS2 and RCM the stages are discovery, then
\* the temporal filter, and every returned path's interval meets
\* [start_date, stop_date]; for SMOS they are discovery, then the generation
\* dedup, with no temporal filter; for ERA5 the periodic resolver alone.
C3_StageOrder ==
    pc = "done" =>
        /\ Filtered => /\ stages = <<"discovery", "temporal_filter">>
                       /\ \A i \in DOMAIN files : Intersects(files[i])
        /\ db_name = "SMOS" => stages = <<"discovery", "generation_dedup">>
        /\ db_name = "ERA5" => stages = <<"periodic_resolver">>

\* a filtered sensor returns some of the discovered products and not all
C3_Witness ==
    /\ pc = "done" /\ Filtered
    /\ files # <<>>
    /\ Len(files) < Len(files_list)

C9_ReversedRangeFails ==
    start_date > stop_date => pc \in {"start", "raised"}

\* the day a scheme key names
DayOfScheme(scheme) ==
    InstantOf(scheme \o <<"0", "0", "0", "0", "0", "0">>) \div 86400

\* C9 as amended: with start_date > stop_date, date_schemes returns a
\* mapping: the empty one when the day of start_date is after the day of
\* stop_date, and then get_all_comparison_files returns the empty list; the
\* single entry of the common day when both lie in the same day.
C9_ReversedRangeReturns ==
    (start_date > stop_date /\ pc # "start") =>
        /\ FloorDay(start_date) > FloorDay(stop_date) =>
               /\ schemes = <<>>
               /\ pc # "raised"
               /\ pc = "done" => files = <<>>
        /\ FloorDay(start_date) = FloorDay(stop_date) =>
               /\ Len(schemes) = 1
               /\ DayOfScheme(schemes[1].scheme) = FloorDay(start_date)

\* a reversed range over days that hold products on disk returns nothing
C9_Witness ==
    /\ start_date > stop_date
    /\ FloorDay(start_date) > FloorDay(stop_date)
    /\ disk # <<>>
    /\ pc = "done"
    /\ files = <<>>

\* C5: for start_date <= stop_date, date_schemes returns one entry for every
\* day from the day of start_date to the day of stop_date, both included, in
\* ascending order, keyed by the day's 8 digits, with that day's year, month
\* (01 to 12) and day of year (1 to 366, 366 only on 31 December of a leap
\* year).
C5_OneEntryPerDay ==
    (pc = "discover" /\ start_date <= stop_date) =>
        /\ Len(schemes) = FloorDay(stop_date) - FloorDay(start_date) + 1
        /\ \A i \in DOMAIN schemes :
               LET e == schemes[i]
               IN  /\ Len(e.scheme) = 8
                   /\ StrptimeOk(e.scheme \o <<"0", "0", "0", "0", "0", "0">>)
                   /\ DayOfScheme(e.scheme) = FloorDay(start_date) + i - 1
                   /\ Len(e.year) = 4 /\ e.year = SubSeq(e.scheme, 1, 4)
                   /\ Len(e.month) = 2 /\ e.month = SubSeq(e.scheme, 5, 6)
                   /\ DigitsVal(e.month) \in 1..12
                   /\ Len(e.dayOfYear) = 3
                   /\ DigitsVal(e.dayOfYear) \in 1..366
                   /\ DaysFromCivil(DigitsVal(e.year), 1, 1) + DigitsVal(e.dayOfYear) - 1
                          = FloorDay(start_date) + i - 1
                   /\ DigitsVal(e.dayOfYear) = 366 =>
                          /\ IsLeap(DigitsVal(e.year))
                          /\ SubSeq(e.scheme, 5, 8) = <<"1", "2", "3", "1">>

\* a range that starts late in a day, ends early in a day and crosses the
\* end of a leap year
C5_Witness ==
    /\ pc = "discover"
    /\ start_date % 86400 > stop_date % 86400
    /\ Len(schemes) = 3
    /\ schemes[2].dayOfYear = <<"3", "6", "6">>
    /\ schemes[3].dayOfYear = <<"0", "0", "1">>
    /\ schemes[3].month = <<"0", "1">>

\* the positions of the cursor of get_nearest_era5_files, counted from 0
Cursors ==
    IF start_date < stop_date
    THEN {k \in 0..((stop_date - start_date) \div (step * 60)) :
              start_date + k * step * 60 < stop_date}
    ELSE {}

ResolvedAt(k) == resource_strftime(resource, step, start_date + k * step * 60)

FirstCursor(filename) ==
    CHOOSE k \in Cursors :
        ResolvedAt(k) = filename /\ \A j \in Cursors : ResolvedAt(j) = filename => k <= j

\* C7: the list of get_nearest_era5_files never holds a file name twice, and
\* what it returns is the file names resolved at the cursor positions
\* start_date, start_date + step, ... below stop_date, each once, in the
\* order of their first resolution.
C7_NoFileTwice ==
    db_name = "ERA5" =>
        /\ NoDuplicates(files)
        /\ pc = "done" =>
               /\ Range(files) = {ResolvedAt(k) : k \in Cursors}
               /\ \A i, j \in DOMAIN files :
                      i < j => FirstCursor(files[i]) < FirstCursor(files[j])

\* a 60-minute step over a 3-hour window that one file covers
C7_Witness ==
    /\ db_name = "ERA5" /\ pc = "done"
    /\ step = 60
    /\ stop_date - start_date = 3 * 3600
    /\ Cardinality(Cursors) = 3
    /\ Len(files) = 1

KnownPrefix(basename) ==
    \/ StartsWith(Upper(basename), <<"S", "1">>)
    \/ StartsWith(Upper(basename), <<"R", "S", "2">>)
    \/ StartsWith(Upper(basename), <<"R", "C", "M">>)

Unrecognized(r) ==
    r.err = "ValueError" /\ r.msg = "Can't recognize if the product is a RCM, a S1 or a RS2"

Extracted == pc = "done" /\ product_path # NoPath

\* C8 as stated: extract_start_stop_dates_from_sar raises the unrecognized
\* product error for every basename that starts with none of S1, RS2, RCM,
\* whatever its case, the basenames ending in '.nc' included.
C8_UnknownPrefixRejected ==
    (Extracted /\ ~KnownPrefix(Basename(product_path))) => Unrecognized(result)

\* C8 as amended: it raises that error for every such basename that does
\* not end in '.nc'.
C8_UnknownLevel1Rejected ==
    (Extracted /\ ~KnownPrefix(Basename(product_path))
        /\ ~EndsWith(Basename(product_path), <<".", "n", "c">>)) => Unrecognized(result)

\* an unknown product whose name ends in '.NC' is rejected
C8_Witness ==
    /\ Extracted
    /\ ~KnownPrefix(Basename(product_path))
    /\ EndsWith(Basename(product_path), <<".", "N", "C">>)
    /\ Unrecognized(result)

\* C4: correct_dataset applied to its own result changes nothing.
C4_Idempotent == calls = 2 => dataset.lon = prev.lon

\* C10: on every GetEra5Meta object, longitude_name and latitude_name return
\* the dimension name when the dataset has it, and raise the "wasn't found
\* in the dataset" ValueError otherwise, and no other error.
C10_NameOrUnsupported ==
    pc \in {"longitude_name", "latitude_name"} =>
        \/ result.err = "none" /\ result.name \in self.dataset.dims
        \/ result.err = "ValueError" /\ result.msg = "wasn't found in the dataset"

\* the '_'-separated tokens of the basename, as written in the path
NameTokens == Split(Basename(product_path), "_")

ValidDateToken(tok) ==
    /\ Len(tok) = 8 /\ AllDigits(tok)
    /\ DigitsVal(SubSeq(tok, 1, 4)) >= 1
    /\ DigitsVal(SubSeq(tok, 5, 6)) \in 1..12
    /\ DigitsVal(SubSeq(tok, 7, 8))
           \in 1..DaysInMonth(DigitsVal(SubSeq(tok, 1, 4)), DigitsVal(SubSeq(tok, 5, 6)))

ValidTimeToken(tok) ==
    /\ Len(tok) = 6 /\ AllDigits(tok)
    /\ DigitsVal(SubSeq(tok, 1, 2)) <= 23
    /\ DigitsVal(SubSeq(tok, 3, 4)) <= 59
    /\ DigitsVal(SubSeq(tok, 5, 6)) <= 59

\* the instant a date token and a time token name
TokenInstant(d, t) ==
    Instant(DigitsVal(SubSeq(d, 1, 4)), DigitsVal(SubSeq(d, 5, 6)), DigitsVal(SubSeq(d, 7, 8)),
            DigitsVal(SubSeq(t, 1, 2)), DigitsVal(SubSeq(t, 3, 4)), DigitsVal(SubSeq(t, 5, 6)))

\* a RS2 or RCM level 1 path with a date at token 5 and a time at token 6
RadarsatLevel1 ==
    /\ Extracted
    /\ ~EndsWith(Basename(product_path), <<".", "n", "c">>)
    /\ \/ StartsWith(Upper(Basename(product_path)), <<"R", "S", "2">>)
       \/ StartsWith(Upper(Basename(product_path)), <<"R", "C", "M">>)
    /\ Len(NameTokens) >= 7
    /\ ValidDateToken(NameTokens[6])
    /\ ValidTimeToken(NameTokens[7])

\* C11: for a RS2 or RCM level 1 path whose tokens 5 and 6 are a valid date
\* and a valid time, extract_start_stop_dates_from_sar returns the instant of
\* the two tokens as start and start + 5 minutes as stop, so start <= stop.
C11_StopIsStartPlusFiveMinutes ==
    RadarsatLevel1 =>
        /\ result.err = "none"
        /\ result.start = TokenInstant(NameTokens[6], NameTokens[7])
        /\ result.stop = result.start + 300
        /\ result.start <= result.stop

\* a lower case rcm product that starts ten seconds before the end of a year
\* and stops in the next one
C11_Witness ==
    /\ RadarsatLevel1
    /\ StartsWith(Basename(product_path), <<"r", "c", "m">>)
    /\ result.start = Instant(2024, 12, 31, 23, 59, 50)
    /\ result.stop = Instant(2025, 1, 1, 0, 4, 50)

\* files_list[i] and files_list[j] are of one identity group and carry the
\* same generation counter, the greatest of the group
EqualGreatest(i, j) ==
    /\ GroupOf(files_list[i]) = GroupOf(files_list[j])
    /\ GenerationOf(files_list[i]) = GenerationOf(files_list[j])
    /\ \A k \in DOMAIN files_list :
           GroupOf(files_list[k]) = GroupOf(files_list[i])
               => GenerationOf(files_list[k]) <= GenerationOf(files_list[i])

\* C12: among the paths of one group that carry the same greatest generation
\* counter, the one that appears last in the input list survives
\* get_last_generation_files and the ones before it do not.
C12_LastEqualWins ==
    (pc = "done" /\ db_name = "SMOS") =>
        \A i, j \in DOMAIN files_list :
            (i < j /\ EqualGreatest(i, j)) =>
                /\ files_list[i] \notin Range(files)
                /\ (\A k \in DOMAIN files_list : (k > j) => ~EqualGreatest(j, k))
                       => files_list[j] \in Range(files)

\* what the scan keeps whatever the other groups are: the last of the equal
\* paths of greatest generation is returned
LastEqualSurvives ==
    (pc = "done" /\ db_name = "SMOS") =>
        \A j \in DOMAIN files_list :
            (/\ EqualGreatest(j, j)
             /\ \A k \in DOMAIN files_list : (k > j) => ~EqualGreatest(j, k))
                => files_list[j] \in Range(files)

====
